---- MODULE Spec2Model ----
(***************************************************************************)
(* Triangle discovery over a remote lexical-relation graph.                *)
(*                                                                         *)
(*   api_client.py      JDMAPIClient     relation cache and fetch layer    *)
(*   triangle_finder.py TriangleFinder   per-seed enumeration, driver      *)
(*   triangle_db.py     TriangleDatabase progress and dedup store (SQLite) *)
(*   main.py            main             construction, one run per process *)
(*                                                                         *)
(* The remote graph is a fixed view chosen in Init; every process (run)    *)
(* starts with empty in-memory state and the same store file.              *)
(***************************************************************************)
EXTENDS Integers, Sequences, FiniteSets, TLC

\* ---------------------------------------------------------------- bounds
\* Largest number of relations the remote graph holds.
MaxEdges == 4
\* Largest per-node cap tried (the cap is None or 1..MaxCap).
MaxCap == 1
\* Number of processes (runs of main) on the same store file.
MaxRuns == 2
\* Number of upstream anomalies in one behaviour: a node the payloads' node
\* lists leave out, or a relation fetch that fails.
MaxFaults == 1

\* ------------------------------------------------------- program constants
\* max_triangles_per_node = None (triangle_finder.py:11); a configured cap is
\* a positive integer (main.py:42), so 0 is free to stand for None.
NoCap == 0

\* min_weight: float = 0.0 (triangle_finder.py:11), the default main offers.
DefaultMinWeight == 0

\* The minimum weights an analyst enters at the prompt: any number, negative
\* ones included (main.py:32-36).
MinWeights == {-2, DefaultMinWeight, 2}

\* api_client.py:14
EXCLUDED_RELATION_TYPES == {0, 666, 777, 4, 1, 2, 200, 1000, 1001, 1002, 2001}

\* ---------------------------------------------------------- remote graph
\* Node ids and their display names as the upstream serves them.
Ids == 1..3
NodeName == <<"a", "b", "c">>
Names == {NodeName[i] : i \in Ids}
NodeId(name) == CHOOSE i \in Ids : NodeName[i] = name

\* A seed without a usable name: start_node.get('name') is None or ''.
NoName == ""

\* The nodes get_node_by_name returns for the sample words, in list order: a
\* fixed list in the program.  One node has no name and one name comes twice.
SeedPool == <<"a", NoName, "b", "a">>

\* The raw relations {node1, node2, type, w} the upstream may hold, in the
\* order the upstream lists them.  Weights are signed; type 1001 is excluded.
EdgeU ==
  << [node1 |-> 1, node2 |-> 2, type |-> 1001, w |-> 3],
     [node1 |-> 1, node2 |-> 2, type |-> 6,    w |-> 1],
     [node1 |-> 1, node2 |-> 3, type |-> 7,    w |-> -1],
     [node1 |-> 1, node2 |-> 3, type |-> 7,    w |-> 2],
     [node1 |-> 3, node2 |-> 2, type |-> 1001, w |-> 3],
     [node1 |-> 3, node2 |-> 2, type |-> 6,    w |-> 1],
     [node1 |-> 2, node2 |-> 2, type |-> 6,    w |-> 1],
     [node1 |-> 2, node2 |-> 3, type |-> 6,    w |-> 1] >>

Views == {v \in SUBSET (1..Len(EdgeU)) : Cardinality(v) <= MaxEdges}

\* Python evaluates "not relations" / "if not x" on a list.
IsEmpty(s) == Len(s) = 0

VARIABLES
  \* the environment: remote graph and configuration
  view,                    \* indices of EdgeU the upstream holds
  unlisted,                \* node ids the payloads' node lists leave out
  dead,                    \* node ids whose node_by_id lookup fails
  max_triangles_per_node,  \* NoCap or the cap
  has_db,                  \* a store is attached (db is not None)
  min_weight,              \* the configured minimum weight
  faults,                  \* upstream anomalies so far
  run,                     \* number of the current process
  clean_start,             \* the store held no in_progress row when this run began
  \* JDMAPIClient
  node_cache, relations_cache, reverse_relations_cache, failed_nodes,
  \* TriangleFinder
  triangles, relation_stats, processed_nodes, rejected_relations,
  \* TriangleDatabase (the SQLite file; survives a restart)
  db_triangles, db_status,
  \* find_all_triangles
  pc, nodes, idx,
  \* locals of find_triangles
  node_name, triangles_for_node, relations_from, target_nodes, target_b,
  relations_to_b, source_nodes, source_c, rel3_i,
  \* observations of the calls made
  outcome,                 \* how the last find_triangles call ended
  len0,                    \* len(self.triangles) when the current call began
  started,                 \* seeds this run marked in_progress whose call has returned
  net,                     \* upstream relation fetches made by this process
  save_ret                 \* what save_triangle returned, in the step that called it

envVars    == <<view, unlisted, dead, max_triangles_per_node, has_db, min_weight>>
clientVars == <<node_cache, relations_cache, reverse_relations_cache, failed_nodes>>
finderVars == <<triangles, relation_stats, processed_nodes, rejected_relations>>
storeVars  == <<db_triangles, db_status>>
localVars  == <<node_name, triangles_for_node, relations_from, target_nodes, target_b,
                relations_to_b, source_nodes, source_c, rel3_i>>
obsVars    == <<outcome, len0, started, net>>
vars == <<envVars, faults, run, clean_start, clientVars, finderVars, storeVars,
          pc, nodes, idx, localVars, obsVars, save_ret>>

\* The empty dict.
EmptyMap == [x \in {} |-> 0]

\* ------------------------------------------------------------ upstream
\* The payload of /relations/from/{word} (dir = "from") or /relations/to/{word}:
\* the relations of the view with that endpoint, and the ids its node list names.
PayloadRelations(word, dir) ==
  LET ix == [i \in 1..Len(EdgeU) |-> i]
      hit(i) == /\ i \in view
                /\ IF dir = "from" THEN NodeName[EdgeU[i].node1] = word
                                   ELSE NodeName[EdgeU[i].node2] = word
      sel == SelectSeq(ix, hit)
  IN  [j \in 1..Len(sel) |-> EdgeU[sel[j]]]

PayloadNodes(relations) ==
  {relations[j].node1 : j \in 1..Len(relations)}
    \cup {relations[j].node2 : j \in 1..Len(relations)}

\* ---------------------------------------------------------- JDMAPIClient
\* Variant: the failed-node set is not consulted before the upstream is asked.
get_node_info_NoNegativeCache(node_id, nc, fn, calls) ==
  IF node_id \in DOMAIN nc
    THEN [found |-> TRUE, name |-> nc[node_id],
          node_cache |-> nc, failed_nodes |-> fn, calls |-> calls]
  ELSE IF node_id \notin dead
    THEN [found |-> TRUE, name |-> NodeName[node_id],
          node_cache |-> (node_id :> NodeName[node_id]) @@ nc, failed_nodes |-> fn,
          calls |-> [calls EXCEPT ![node_id] = @ + 1]]
  ELSE [found |-> FALSE, name |-> NoName,
        node_cache |-> nc, failed_nodes |-> fn \cup {node_id},
        calls |-> [calls EXCEPT ![node_id] = @ + 1]]

\* get_node_info: node cache, then failed-node set, then the upstream.
\* calls is the number of upstream node lookups made so far, per id.
get_node_info(node_id, nc, fn, calls) ==
  IF node_id \in DOMAIN nc
    THEN [found |-> TRUE, name |-> nc[node_id],
          node_cache |-> nc, failed_nodes |-> fn, calls |-> calls]
  ELSE IF node_id \in fn
    THEN [found |-> FALSE, name |-> NoName,
          node_cache |-> nc, failed_nodes |-> fn, calls |-> calls]
  ELSE IF node_id \notin dead
    THEN [found |-> TRUE, name |-> NodeName[node_id],
          node_cache |-> (node_id :> NodeName[node_id]) @@ nc, failed_nodes |-> fn,
          calls |-> [calls EXCEPT ![node_id] = @ + 1]]
  ELSE [found |-> FALSE, name |-> NoName,
        node_cache |-> nc, failed_nodes |-> fn \cup {node_id},
        calls |-> [calls EXCEPT ![node_id] = @ + 1]]

\* node_map.get(id), and get_node_info(id) when the payload does not list it.
ResolveNode(node_id, node_map, nc, fn, calls) ==
  IF node_id \in node_map
    THEN [found |-> TRUE, name |-> NodeName[node_id],
          node_cache |-> nc, failed_nodes |-> fn, calls |-> calls]
    ELSE get_node_info(node_id, nc, fn, calls)

\* Variant: the exclusion filter keeps every relation.
filter_relations_KeepAll(relations) == relations

filter_relations(relations) ==
  SelectSeq(relations, LAMBDA rel : rel.type \notin EXCLUDED_RELATION_TYPES)

\* The loop that turns raw relations into {source, target, type, weight}:
\* a relation with an unresolved endpoint is skipped.
RECURSIVE ProcessRelations(_, _, _, _, _, _)
ProcessRelations(rels, node_map, nc, fn, calls, acc) ==
  IF IsEmpty(rels)
    THEN [relations |-> acc, node_cache |-> nc, failed_nodes |-> fn, calls |-> calls]
    ELSE
      LET rel == Head(rels)
          s == ResolveNode(rel.node1, node_map, nc, fn, calls)
      IN  IF ~s.found
            THEN ProcessRelations(Tail(rels), node_map, s.node_cache, s.failed_nodes,
                                  s.calls, acc)
            ELSE
              LET t == ResolveNode(rel.node2, node_map, s.node_cache, s.failed_nodes,
                                   s.calls)
              IN  IF ~t.found
                    THEN ProcessRelations(Tail(rels), node_map, t.node_cache,
                                          t.failed_nodes, t.calls, acc)
                    ELSE ProcessRelations(Tail(rels), node_map, t.node_cache,
                                          t.failed_nodes, t.calls,
                                          Append(acc, [source |-> s.name, target |-> t.name,
                                                       type |-> rel.type, weight |-> rel.w]))

\* How the upstream answers one relation fetch.
\*   ok          a well-formed payload
\*   http_error  timeout or non-2xx: requests raises a RequestException
\*   malformed   not a dict, or no 'relations' / 'nodes' key
\*   raises      a payload whose items lack a field: KeyError / TypeError
Answers == {"ok", "http_error", "malformed", "raises"}

\* Variant: a batch in which a relation was dropped is discarded whole and
\* not memoized.
GetRelations_NoMemoOnDrop(cache, word, dir, answer) ==
  LET same == [relations |-> <<>>, cache |-> cache, node_cache |-> node_cache,
               failed_nodes |-> failed_nodes, calls |-> net.node,
               raised |-> FALSE, fetched |-> FALSE]
  IN  IF word \in DOMAIN cache
        THEN [same EXCEPT !.relations = cache[word]]
      ELSE IF answer \in {"http_error", "malformed"}
        THEN [same EXCEPT !.fetched = TRUE]
      ELSE IF answer = "raises"
        THEN [same EXCEPT !.fetched = TRUE, !.raised = TRUE]
      ELSE
        LET raw == PayloadRelations(word, dir)
            node_map == PayloadNodes(raw) \ unlisted
            p == ProcessRelations(filter_relations(raw), node_map, node_cache,
                                  failed_nodes, net.node, <<>>)
        IN  IF Len(p.relations) < Len(filter_relations(raw))
              THEN [relations |-> <<>>, cache |-> cache,
                    node_cache |-> p.node_cache, failed_nodes |-> p.failed_nodes,
                    calls |-> p.calls, raised |-> FALSE, fetched |-> TRUE]
              ELSE [relations |-> p.relations, cache |-> (word :> p.relations) @@ cache,
                    node_cache |-> p.node_cache, failed_nodes |-> p.failed_nodes,
                    calls |-> p.calls, raised |-> FALSE, fetched |-> TRUE]

\* get_relations_from (dir = "from") and get_relations_to (dir = "to") share
\* their body; cache is the memo of that direction.
GetRelations(cache, word, dir, answer) ==
  LET same == [relations |-> <<>>, cache |-> cache, node_cache |-> node_cache,
               failed_nodes |-> failed_nodes, calls |-> net.node,
               raised |-> FALSE, fetched |-> FALSE]
  IN  IF word \in DOMAIN cache
        THEN [same EXCEPT !.relations = cache[word]]
      ELSE IF answer \in {"http_error", "malformed"}
        THEN [same EXCEPT !.fetched = TRUE]
      ELSE IF answer = "raises"
        THEN [same EXCEPT !.fetched = TRUE, !.raised = TRUE]
      ELSE
        LET raw == PayloadRelations(word, dir)
            node_map == PayloadNodes(raw) \ unlisted
            p == ProcessRelations(filter_relations(raw), node_map, node_cache,
                                  failed_nodes, net.node, <<>>)
        IN  [relations |-> p.relations, cache |-> (word :> p.relations) @@ cache,
             node_cache |-> p.node_cache, failed_nodes |-> p.failed_nodes,
             calls |-> p.calls, raised |-> FALSE, fetched |-> TRUE]

get_relations_from(word, answer) == GetRelations(relations_cache, word, "from", answer)

get_relations_to(word, answer) == GetRelations(reverse_relations_cache, word, "to", answer)

\* The answers the upstream can give to a fetch of word: a cache hit asks
\* nothing, and at most MaxFaults answers of a behaviour fail.
AnswersFor(cache, word) ==
  IF word \in DOMAIN cache \/ faults >= MaxFaults THEN {"ok"} ELSE Answers

Fault(r, answer) == IF r.fetched /\ answer # "ok" THEN 1 ELSE 0

\* ------------------------------------------------------ TriangleDatabase
\* The 6-column UNIQUE key of table triangles.
Identity(t) == <<t.A, t.B, t.C, t.A_to_B, t.C_to_B, t.A_to_C>>

StoredIdentities(rows) == {Identity(rows[i]) : i \in 1..Len(rows)}

\* Variant: the status text compared is not the one mark_node_processed writes.
is_node_processed_WrongStatus(status, name) ==
  name \in DOMAIN status /\ status[name] = "complete"

\* SELECT 1 FROM processed_nodes WHERE node_name = ? AND status = 'completed'
is_node_processed(status, name) ==
  name \in DOMAIN status /\ status[name] = "completed"

\* INSERT OR REPLACE INTO processed_nodes (node_name, status)
mark_node_in_progress(status, name) == (name :> "in_progress") @@ status

mark_node_processed(status, name) == (name :> "completed") @@ status

\* Variant: a plain INSERT on a table without the UNIQUE key.
save_triangle_NoUnique(rows, triangle) ==
  [rows |-> Append(rows, triangle), ret |-> TRUE]

\* Variant: the insert is reported but the row never reaches the table.
save_triangle_NoCommit(rows, triangle) ==
  [rows |-> rows, ret |-> Identity(triangle) \notin StoredIdentities(rows)]

\* INSERT OR IGNORE under the UNIQUE key; returns cursor.rowcount > 0.
save_triangle(rows, triangle) ==
  IF Identity(triangle) \in StoredIdentities(rows)
    THEN [rows |-> rows, ret |-> FALSE]
    ELSE [rows |-> Append(rows, triangle), ret |-> TRUE]

\* -------------------------------------------------------- TriangleFinder
\* Variant: the visited-set test is lost.
IsSkipped_NoVisited(seed) ==
  \/ seed = NoName
  \/ has_db /\ is_node_processed(db_status, seed)

\* Variant: the store is not asked whether the seed is completed.
IsSkipped_NoStoreCheck(seed) ==
  \/ seed = NoName
  \/ seed \in processed_nodes

\* The early returns of find_triangles before any work is done.
IsSkipped(seed) ==
  \/ seed = NoName
  \/ has_db /\ is_node_processed(db_status, seed)
  \/ seed \in processed_nodes

\* Variant: only the target of the first relation is kept.
TargetNodes_FirstOnly(rels) == {rels[j].target : j \in {i \in 1..Len(rels) : i = 1}}

TargetNodes(rels) == {rels[j].target : j \in 1..Len(rels)}

\* Variant: the seed is not excluded from the sources.
SourceNodes_WithSeed(rels, seed) == {rels[j].source : j \in 1..Len(rels)}

SourceNodes(rels, seed) ==
  {rels[j].source : j \in {i \in 1..Len(rels) : rels[i].source # seed}}

CapReached ==
  max_triangles_per_node # NoCap /\ triangles_for_node >= max_triangles_per_node

\* next(r for r in rels if r[field] == name): the first such relation.
FirstWith(rels, field, name) ==
  rels[CHOOSE i \in 1..Len(rels) :
         /\ rels[i][field] = name
         /\ \A j \in 1..(i - 1) : rels[j][field] # name]

\* Variant: the types of A->B and A->C are taken from each other's relation.
Triangle_SwappedTypes(rel1, rel2, rel3) ==
  [A |-> node_name, B |-> target_b, C |-> source_c,
   A_to_B |-> rel3.type, C_to_B |-> rel2.type, A_to_C |-> rel1.type,
   A_to_B_weight |-> rel1.weight, C_to_B_weight |-> rel2.weight,
   A_to_C_weight |-> rel3.weight]

\* Variant: a negative weight is replaced by 0.
Triangle_ClampedWeights(rel1, rel2, rel3) ==
  LET clamp(w) == IF w < 0 THEN 0 ELSE w
  IN  [A |-> node_name, B |-> target_b, C |-> source_c,
       A_to_B |-> rel1.type, C_to_B |-> rel2.type, A_to_C |-> rel3.type,
       A_to_B_weight |-> clamp(rel1.weight), C_to_B_weight |-> clamp(rel2.weight),
       A_to_C_weight |-> clamp(rel3.weight)]

Triangle(rel1, rel2, rel3) ==
  [A |-> node_name, B |-> target_b, C |-> source_c,
   A_to_B |-> rel1.type, C_to_B |-> rel2.type, A_to_C |-> rel3.type,
   A_to_B_weight |-> rel1.weight, C_to_B_weight |-> rel2.weight,
   A_to_C_weight |-> rel3.weight]

\* Variant: the comparison with the minimum weight is active, and a triangle
\* with an edge below it is passed over.
WeightsAccepted_Enforced(rel1, rel2, rel3) ==
  ~(rel1.weight < min_weight \/ rel2.weight < min_weight \/ rel3.weight < min_weight)

\* "Verify all weights are above minimum threshold": the test and its continue
\* are commented out, so every match goes on to the triangle.
WeightsAccepted(rel1, rel2, rel3) == TRUE

\* relation_stats[key] += 1 on a defaultdict(int)
Incremented(stats, key) ==
  IF key \in DOMAIN stats THEN [stats EXCEPT ![key] = @ + 1] ELSE (key :> 1) @@ stats

\* ------------------------------------------------------------------ Init
\* Node ids a payload's node list may leave out.
UnlistedIds == {3}

\* No call of find_triangles is active: its locals hold nothing.
NoLocals ==
  /\ node_name' = NoName
  /\ triangles_for_node' = 0
  /\ relations_from' = <<>>
  /\ target_nodes' = {}
  /\ target_b' = NoName
  /\ relations_to_b' = <<>>
  /\ source_nodes' = {}
  /\ source_c' = NoName
  /\ rel3_i' = 0

NoFetches ==
  [from |-> [n \in Names |-> 0], to |-> [n \in Names |-> 0], node |-> [i \in Ids |-> 0]]

\* JDMAPIClient(), TriangleFinder(...) and the observations of a new process.
NewProcess ==
  /\ node_cache' = EmptyMap
  /\ relations_cache' = EmptyMap
  /\ reverse_relations_cache' = EmptyMap
  /\ failed_nodes' = {}
  /\ triangles' = <<>>
  /\ relation_stats' = EmptyMap
  /\ processed_nodes' = {}
  /\ rejected_relations' = <<>>
  /\ pc' = "start"
  /\ nodes' = <<>>
  /\ idx' = 1
  /\ NoLocals
  /\ outcome' = "none"
  /\ len0' = 0
  /\ started' = {}
  /\ net' = NoFetches
  /\ save_ret' = "none"

\* Everything main constructs but the minimum weight.
Constructed ==
  /\ view \in Views
  /\ unlisted \in {u \in SUBSET UnlistedIds : Cardinality(u) <= MaxFaults}
  /\ dead \in SUBSET unlisted
  /\ max_triangles_per_node \in {NoCap} \cup (1..MaxCap)
  /\ has_db \in BOOLEAN
  /\ faults = Cardinality(unlisted)
  /\ run = 1
  /\ clean_start = TRUE
  /\ db_triangles = <<>>
  /\ db_status = EmptyMap
  /\ node_cache = EmptyMap
  /\ relations_cache = EmptyMap
  /\ reverse_relations_cache = EmptyMap
  /\ failed_nodes = {}
  /\ triangles = <<>>
  /\ relation_stats = EmptyMap
  /\ processed_nodes = {}
  /\ rejected_relations = <<>>
  /\ pc = "start"
  /\ nodes = <<>>
  /\ idx = 1
  /\ node_name = NoName
  /\ triangles_for_node = 0
  /\ relations_from = <<>>
  /\ target_nodes = {}
  /\ target_b = NoName
  /\ relations_to_b = <<>>
  /\ source_nodes = {}
  /\ source_c = NoName
  /\ rel3_i = 0
  /\ outcome = "none"
  /\ len0 = 0
  /\ started = {}
  /\ net = NoFetches
  /\ save_ret = "none"

\* main run with the default minimum weight.
Init ==
  /\ Constructed
  /\ min_weight = DefaultMinWeight

\* --------------------------------------------------- find_all_triangles
\* get_all_nodes: the nodes of the sample words, each cached by id.  The list
\* is not empty, so the "No nodes to process" return is never taken.
FindAllStart ==
  /\ pc = "start"
  /\ nodes' = SeedPool
  /\ node_cache' = [i \in {NodeId(nodes'[j]) : j \in {k \in 1..Len(nodes') : nodes'[k] # NoName}}
                      |-> NodeName[i]]
  /\ pc' = "loop"
  /\ UNCHANGED <<envVars, faults, run, clean_start, relations_cache,
                 reverse_relations_cache, failed_nodes, finderVars, storeVars, idx,
                 localVars, obsVars>>
  /\ save_ret' = "none"

\* The for loop is exhausted: return self.triangles.
FindAllReturn ==
  /\ pc = "loop"
  /\ idx > Len(nodes)
  /\ pc' = "done"
  /\ UNCHANGED <<envVars, faults, run, clean_start, clientVars, finderVars, storeVars,
                 nodes, idx, localVars, obsVars>>
  /\ save_ret' = "none"

\* ------------------------------------------------------- find_triangles
\* Variant: an exception caught in find_triangles ends the scan of the seeds.
Return_ErrorEndsScan(kind) ==
  /\ pc' = IF kind = "error" THEN "done" ELSE "loop"
  /\ idx' = idx + 1
  /\ outcome' = kind
  /\ started' = started \cup {node_name}
  /\ NoLocals

\* Every return of find_triangles once the seed was marked: back in the loop
\* of find_all_triangles, which drops the returned list.
Return(kind) ==
  /\ pc' = "loop"
  /\ idx' = idx + 1
  /\ outcome' = kind
  /\ started' = started \cup {node_name}
  /\ NoLocals

\* The seed is skipped: return [] before any work.
FindTrianglesSkip ==
  /\ pc = "loop"
  /\ idx <= Len(nodes)
  /\ IsSkipped(nodes[idx])
  /\ idx' = idx + 1
  /\ outcome' = "skipped"
  /\ len0' = Len(triangles)
  /\ UNCHANGED <<envVars, faults, run, clean_start, clientVars, finderVars, storeVars,
                 pc, nodes, localVars, started, net>>
  /\ save_ret' = "none"

\* The seed is taken: visited, marked in_progress in the store.
FindTrianglesBegin ==
  /\ pc = "loop"
  /\ idx <= Len(nodes)
  /\ ~IsSkipped(nodes[idx])
  /\ processed_nodes' = processed_nodes \cup {nodes[idx]}
  /\ db_status' = IF has_db THEN mark_node_in_progress(db_status, nodes[idx]) ELSE db_status
  /\ node_name' = nodes[idx]
  /\ triangles_for_node' = 0
  /\ pc' = "from"
  /\ outcome' = "running"
  /\ len0' = Len(triangles)
  /\ UNCHANGED <<envVars, faults, run, clean_start, clientVars, triangles, relation_stats,
                 rejected_relations, db_triangles, nodes, idx, relations_from,
                 target_nodes, target_b, relations_to_b, source_nodes, source_c, rel3_i,
                 started, net>>
  /\ save_ret' = "none"

\* What a relation fetch leaves in the client and in the counters.
Fetched(r, dir, word, answer) ==
  /\ node_cache' = r.node_cache
  /\ failed_nodes' = r.failed_nodes
  /\ relations_cache' = IF dir = "from" THEN r.cache ELSE relations_cache
  /\ reverse_relations_cache' = IF dir = "to" THEN r.cache ELSE reverse_relations_cache
  /\ net' = [net EXCEPT ![dir][word] = @ + (IF r.fetched THEN 1 ELSE 0), !.node = r.calls]
  /\ faults' = faults + Fault(r, answer)

\* relations_from = get_relations_from(node_name), the empty result and the
\* set of targets.
GetRelationsFrom ==
  /\ pc = "from"
  /\ \E answer \in AnswersFor(relations_cache, node_name) :
       LET r == get_relations_from(node_name, answer)
       IN  /\ Fetched(r, "from", node_name, answer)
           /\ IF r.raised
                THEN Return("error")
              ELSE IF IsEmpty(r.relations)
                THEN Return("empty")
              ELSE /\ relations_from' = r.relations
                   /\ target_nodes' = TargetNodes(r.relations)
                   /\ pc' = "targets"
                   /\ UNCHANGED <<idx, outcome, started, node_name, triangles_for_node,
                                  target_b, relations_to_b, source_nodes, source_c, rel3_i>>
  /\ UNCHANGED <<envVars, run, clean_start, finderVars, storeVars, nodes, len0>>
  /\ save_ret' = "none"

\* Every target was examined: mark the node completed, return self.triangles.
TargetsDone ==
  /\ pc = "targets"
  /\ target_nodes = {}
  /\ db_status' = IF has_db THEN mark_node_processed(db_status, node_name) ELSE db_status
  /\ Return("completed")
  /\ UNCHANGED <<envVars, faults, run, clean_start, clientVars, finderVars, db_triangles,
                 nodes, len0, net>>
  /\ save_ret' = "none"

\* The cap check at the head of the loop over targets.
CapAtTarget ==
  /\ pc = "targets"
  /\ target_nodes # {}
  /\ CapReached
  /\ Return("cap")
  /\ UNCHANGED <<envVars, faults, run, clean_start, clientVars, finderVars, storeVars,
                 nodes, len0, net>>
  /\ save_ret' = "none"

\* One iteration of the loop over targets, up to the set of sources.  A set
\* of strings is iterated in no fixed order.
NextTarget ==
  /\ pc = "targets"
  /\ target_nodes # {}
  /\ ~CapReached
  /\ \E b \in target_nodes :
       \E answer \in AnswersFor(reverse_relations_cache, b) :
         LET r == get_relations_to(b, answer)
         IN  /\ Fetched(r, "to", b, answer)
             /\ IF r.raised
                  THEN Return("error")
                ELSE IF IsEmpty(r.relations)
                  THEN /\ target_nodes' = target_nodes \ {b}
                       /\ UNCHANGED <<pc, idx, outcome, started, node_name,
                                      triangles_for_node, relations_from, target_b,
                                      relations_to_b, source_nodes, source_c, rel3_i>>
                ELSE /\ target_nodes' = target_nodes \ {b}
                     /\ target_b' = b
                     /\ relations_to_b' = r.relations
                     /\ source_nodes' = SourceNodes(r.relations, node_name)
                     /\ pc' = "sources"
                     /\ UNCHANGED <<idx, outcome, started, node_name, triangles_for_node,
                                    relations_from, source_c, rel3_i>>
  /\ UNCHANGED <<envVars, run, clean_start, finderVars, storeVars, nodes, len0>>
  /\ save_ret' = "none"

\* The loop over sources is exhausted: next target.
SourcesDone ==
  /\ pc = "sources"
  /\ source_nodes = {}
  /\ pc' = "targets"
  /\ target_b' = NoName
  /\ relations_to_b' = <<>>
  /\ UNCHANGED <<envVars, faults, run, clean_start, clientVars, finderVars, storeVars,
                 nodes, idx, node_name, triangles_for_node, relations_from, target_nodes,
                 source_nodes, source_c, rel3_i, obsVars>>
  /\ save_ret' = "none"

\* The cap check at the head of the loop over sources.
CapAtSource ==
  /\ pc = "sources"
  /\ source_nodes # {}
  /\ CapReached
  /\ Return("cap")
  /\ UNCHANGED <<envVars, faults, run, clean_start, clientVars, finderVars, storeVars,
                 nodes, len0, net>>
  /\ save_ret' = "none"

\* One source is taken; the scan of relations_from for A->C starts.
NextSource ==
  /\ pc = "sources"
  /\ source_nodes # {}
  /\ ~CapReached
  /\ \E c \in source_nodes :
       /\ source_c' = c
       /\ source_nodes' = source_nodes \ {c}
  /\ rel3_i' = 1
  /\ pc' = "rel3"
  /\ UNCHANGED <<envVars, faults, run, clean_start, clientVars, finderVars, storeVars,
                 nodes, idx, node_name, triangles_for_node, relations_from, target_nodes,
                 target_b, relations_to_b, obsVars>>
  /\ save_ret' = "none"

\* The positions of relations_from, from rel3_i on, whose target is source_c.
Rel3Matches == {j \in rel3_i..Len(relations_from) : relations_from[j].target = source_c}

\* The position of the next rel3 with target C, and the relations matched.
NextRel3 == CHOOSE i \in Rel3Matches : \A m \in Rel3Matches : i <= m

Rel1 == FirstWith(relations_from, "target", target_b)

Rel2 == FirstWith(relations_to_b, "source", source_c)

\* Variant: the list is replaced by the new triangle instead of extended.
Rel3Match_Replaces ==
  /\ pc = "rel3"
  /\ Rel3Matches # {}
  /\ LET rel3 == relations_from[NextRel3]
         triangle == Triangle(Rel1, Rel2, rel3)
         saved == save_triangle(db_triangles, triangle)
     IN  IF WeightsAccepted(Rel1, Rel2, rel3)
           THEN /\ triangles' = <<triangle>>
                /\ db_triangles' = IF has_db THEN saved.rows ELSE db_triangles
                /\ save_ret' = IF has_db THEN (IF saved.ret THEN "true" ELSE "false")
                                         ELSE "none"
                /\ triangles_for_node' = triangles_for_node + 1
                /\ relation_stats' = Incremented(relation_stats, Rel1.type)
           ELSE /\ save_ret' = "none"
                /\ UNCHANGED <<triangles, db_triangles, triangles_for_node, relation_stats>>
  /\ rel3_i' = NextRel3 + 1
  /\ UNCHANGED <<envVars, faults, run, clean_start, clientVars, processed_nodes,
                 rejected_relations, db_status, pc, nodes, idx, node_name, relations_from,
                 target_nodes, target_b, relations_to_b, source_nodes, source_c,
                 outcome, len0, started, net>>

\* The next rel3 with target C: the triangle is appended, saved and counted.
Rel3Match ==
  /\ pc = "rel3"
  /\ Rel3Matches # {}
  /\ LET rel3 == relations_from[NextRel3]
         triangle == Triangle(Rel1, Rel2, rel3)
         saved == save_triangle(db_triangles, triangle)
     IN  IF WeightsAccepted(Rel1, Rel2, rel3)
           THEN /\ triangles' = Append(triangles, triangle)
                /\ db_triangles' = IF has_db THEN saved.rows ELSE db_triangles
                /\ save_ret' = IF has_db THEN (IF saved.ret THEN "true" ELSE "false")
                                         ELSE "none"
                /\ triangles_for_node' = triangles_for_node + 1
                /\ relation_stats' = Incremented(relation_stats, Rel1.type)
           ELSE /\ save_ret' = "none"
                /\ UNCHANGED <<triangles, db_triangles, triangles_for_node, relation_stats>>
  /\ rel3_i' = NextRel3 + 1
  /\ UNCHANGED <<envVars, faults, run, clean_start, clientVars, processed_nodes,
                 rejected_relations, db_status, pc, nodes, idx, node_name, relations_from,
                 target_nodes, target_b, relations_to_b, source_nodes, source_c,
                 outcome, len0, started, net>>

\* No further rel3 has target C: next source.
Rel3Done ==
  /\ pc = "rel3"
  /\ Rel3Matches = {}
  /\ pc' = "sources"
  /\ source_c' = NoName
  /\ rel3_i' = 0
  /\ UNCHANGED <<envVars, faults, run, clean_start, clientVars, finderVars, storeVars,
                 nodes, idx, node_name, triangles_for_node, relations_from, target_nodes,
                 target_b, relations_to_b, source_nodes, obsVars>>
  /\ save_ret' = "none"

\* ------------------------------------------------------------------ main
\* The process is interrupted (at any point) and main is run again: new
\* client and finder, the same triangles.db.
Restart ==
  /\ pc # "start"
  /\ has_db
  /\ run < MaxRuns
  /\ run' = run + 1
  /\ clean_start' = (\A n \in DOMAIN db_status : db_status[n] # "in_progress")
  /\ NewProcess
  /\ UNCHANGED <<envVars, faults, storeVars>>

Next ==
  \/ FindAllStart
  \/ FindAllReturn
  \/ FindTrianglesSkip
  \/ FindTrianglesBegin
  \/ GetRelationsFrom
  \/ TargetsDone
  \/ CapAtTarget
  \/ NextTarget
  \/ SourcesDone
  \/ CapAtSource
  \/ NextSource
  \/ Rel3Match
  \/ Rel3Done
  \/ Restart

Spec == Init /\ [][Next]_vars

\* ------------------------------------------- one run, the store may fail
\* main run with any minimum weight entered at the prompt.
InitRun ==
  /\ Constructed
  /\ min_weight \in MinWeights

\* mark_node_in_progress raises (sqlite3.OperationalError: the file is locked,
\* read-only or the disk is full).  The call is outside the try block and
\* find_all_triangles catches nothing: the exception reaches main.
MarkInProgressRaises ==
  /\ pc = "loop"
  /\ idx <= Len(nodes)
  /\ ~IsSkipped(nodes[idx])
  /\ has_db
  /\ processed_nodes' = processed_nodes \cup {nodes[idx]}
  /\ pc' = "raised"
  /\ outcome' = "store_error"
  /\ len0' = Len(triangles)
  /\ UNCHANGED <<envVars, faults, run, clean_start, clientVars, triangles, relation_stats,
                 rejected_relations, storeVars, nodes, idx, localVars, started, net>>
  /\ save_ret' = "none"

\* save_triangle raises an sqlite3 error other than IntegrityError: the
\* triangle is already in the list, the except clause of find_triangles
\* prints the error and returns [], and find_all_triangles goes on.
SaveTriangleRaises ==
  /\ pc = "rel3"
  /\ Rel3Matches # {}
  /\ has_db
  /\ WeightsAccepted(Rel1, Rel2, relations_from[NextRel3])
  /\ triangles' = Append(triangles, Triangle(Rel1, Rel2, relations_from[NextRel3]))
  /\ save_ret' = "raised"
  /\ Return("error")
  /\ UNCHANGED <<envVars, faults, run, clean_start, clientVars, relation_stats,
                 processed_nodes, rejected_relations, storeVars, nodes, len0, net>>

\* mark_node_processed raises: outside the try block, the exception reaches main.
MarkProcessedRaises ==
  /\ pc = "targets"
  /\ target_nodes = {}
  /\ has_db
  /\ pc' = "raised"
  /\ outcome' = "store_error"
  /\ UNCHANGED <<envVars, faults, run, clean_start, clientVars, finderVars, storeVars,
                 nodes, idx, localVars, len0, started, net>>
  /\ save_ret' = "none"

NextRun ==
  \/ FindAllStart
  \/ FindAllReturn
  \/ FindTrianglesSkip
  \/ FindTrianglesBegin
  \/ GetRelationsFrom
  \/ TargetsDone
  \/ CapAtTarget
  \/ NextTarget
  \/ SourcesDone
  \/ CapAtSource
  \/ NextSource
  \/ Rel3Match
  \/ Rel3Done
  \/ MarkInProgressRaises
  \/ SaveTriangleRaises
  \/ MarkProcessedRaises

SpecRun == InitRun /\ [][NextRun]_vars

\* ============================================================ properties
\* The seed of the find_triangles call that returned last.
LastSeed == nodes[idx - 1]

Returned == pc \in {"loop", "done"} /\ idx > 1

\* A step that is the start of a find_triangles call on nodes[idx].
CallStep ==
  /\ pc = "loop"
  /\ idx <= Len(nodes)
  /\ run' = run
  /\ <<pc, idx>>' # <<pc, idx>>

StoredCompleted(name) == name \in DOMAIN db_status /\ db_status[name] = "completed"

NoDuplicateRows ==
  \A i, j \in 1..Len(db_triangles) :
    Identity(db_triangles[i]) = Identity(db_triangles[j]) => i = j

\* C1: with a per-node cap k configured, one find_triangles call appends at
\* most k triangles to the result list.
C1_CapBoundsOneCall ==
  max_triangles_per_node # NoCap =>
    Len(triangles) - len0 <= max_triangles_per_node

\* C2: when a call stops a seed early because the cap was reached, the seed's
\* status in the store is completed when the call returns.
C2_CapStopIsCompleted ==
  (Returned /\ has_db /\ outcome = "cap") => StoredCompleted(LastSeed)

\* C3: when the outgoing-relations result of a seed is empty, the call adds no
\* triangle, raises no error, and the seed's status is completed on return.
C3_EmptyOutgoingIsCompleted ==
  (Returned /\ outcome = "empty") =>
    /\ Len(triangles) = len0
    /\ has_db => StoredCompleted(LastSeed)

\* C4: a call on a seed that is skipped (completed in the store, nameless, or
\* already visited in this run; with or without a store) returns at once,
\* fetches no relation, writes nothing to the store and leaves the triangle
\* list, the relation-type histogram and the visited set unchanged.
C4_SkipChangesNothing ==
  [][(/\ CallStep
      /\ \/ nodes[idx] = NoName
         \/ nodes[idx] \in processed_nodes
         \/ has_db /\ StoredCompleted(nodes[idx]))
     => /\ pc' = "loop"
        /\ idx' = idx + 1
        /\ UNCHANGED <<net, db_triangles, db_status, triangles, relation_stats,
                       processed_nodes>>]_vars

\* A seed visited earlier in this run was skipped, with triangles already found.
C4_Witness ==
  /\ Returned
  /\ outcome = "skipped"
  /\ LastSeed \in processed_nodes
  /\ ~has_db
  /\ Len(triangles) > 0

\* C5: the store holds at most one row per 6-field identity; save_triangle
\* returns true exactly when the identity was not stored yet, and returns false
\* and leaves the rows unchanged when it was.
C5_SaveTriangleDedups ==
  /\ []NoDuplicateRows
  /\ [][(has_db /\ Len(triangles') = Len(triangles) + 1) =>
          LET t == triangles'[Len(triangles')]
              known == Identity(t) \in StoredIdentities(db_triangles)
          IN  /\ (save_ret' = "true") <=> ~known
              /\ (save_ret' = "false") <=> known
              /\ known => db_triangles' = db_triangles
              /\ ~known => db_triangles' = Append(db_triangles, t)]_vars

\* A second triangle of a stored identity, with another weight, was refused.
C5_Witness ==
  /\ save_ret = "false"
  /\ Len(triangles) > 0
  /\ \E i \in 1..Len(db_triangles) :
       /\ Identity(db_triangles[i]) = Identity(triangles[Len(triangles)])
       /\ db_triangles[i] # triangles[Len(triangles)]

\* C6: whenever a run is interrupted and restarted on the same store, a
\* restarted run makes no relation fetch and no store write for a node whose
\* status is completed, and the store never holds two rows of one identity.
C6_RestartSkipsCompleted ==
  /\ [][(run > 1 /\ CallStep /\ StoredCompleted(nodes[idx])) =>
          UNCHANGED <<net, db_triangles, db_status>>]_vars
  /\ [](run > 1 => NoDuplicateRows)

\* A restarted run skipped a completed seed whose triangles are in the store.
C6_Witness ==
  /\ run > 1
  /\ Returned
  /\ outcome = "skipped"
  /\ StoredCompleted(LastSeed)
  /\ LastSeed \notin processed_nodes
  /\ \E i \in 1..Len(db_triangles) : db_triangles[i].A = LastSeed

\* C7: in a run started on a store without in_progress rows, at most one node
\* is in_progress, the seed being processed, and every seed whose call has
\* returned after being started in this run is completed.
C7_OnlyCurrentSeedInProgress ==
  (has_db /\ clean_start) =>
    /\ \A n \in DOMAIN db_status :
         db_status[n] = "in_progress" => (n = node_name /\ pc \notin {"start", "loop", "done"})
    /\ \A n \in started : StoredCompleted(n)

\* C8: every triangle produced has C different from A.
C8_NoSelfClosing ==
  \A i \in 1..Len(triangles) : triangles[i].C # triangles[i].A

\* A triangle was found through a target whose incoming relations name the seed.
C8_Witness ==
  /\ pc = "rel3"
  /\ Len(triangles) > len0
  /\ \E j \in 1..Len(relations_to_b) : relations_to_b[j].source = node_name

\* C9: in every triangle produced, A, B and C are pairwise distinct.
C9_PairwiseDistinct ==
  \A i \in 1..Len(triangles) :
    /\ triangles[i].A # triangles[i].B
    /\ triangles[i].B # triangles[i].C
    /\ triangles[i].A # triangles[i].C

NoExcluded(rels) == \A j \in 1..Len(rels) : rels[j].type \notin EXCLUDED_RELATION_TYPES

EdgeTypes(t) == {t.A_to_B, t.C_to_B, t.A_to_C}

\* C10: get_relations_from and get_relations_to return no relation of an
\* excluded type, so no triangle of the result list or of the store carries an
\* excluded type on any edge.
C10_ExcludedTypesNeverUsed ==
  /\ \A w \in DOMAIN relations_cache : NoExcluded(relations_cache[w])
  /\ \A w \in DOMAIN reverse_relations_cache : NoExcluded(reverse_relations_cache[w])
  /\ NoExcluded(relations_from)
  /\ NoExcluded(relations_to_b)
  /\ \A i \in 1..Len(triangles) : EdgeTypes(triangles[i]) \cap EXCLUDED_RELATION_TYPES = {}
  /\ \A i \in 1..Len(db_triangles) :
       EdgeTypes(db_triangles[i]) \cap EXCLUDED_RELATION_TYPES = {}

\* A triangle was stored although both payloads used held an excluded relation.
C10_Witness ==
  /\ pc = "rel3"
  /\ Len(db_triangles) > 0
  /\ Len(triangles) > len0
  /\ ~NoExcluded(PayloadRelations(node_name, "from"))
  /\ ~NoExcluded(PayloadRelations(target_b, "to"))

\* C11: for get_relations_from and for get_relations_to, the calls made with
\* one name in one process cause exactly one underlying fetch, whatever the
\* outcome of the first one: no name is ever fetched a second time.
C11_OneFetchPerName ==
  \A n \in Names : net.from[n] <= 1 /\ net.to[n] <= 1

\* The names at the ends of the relations of a list.
Endpoints(rels) ==
  {rels[j].source : j \in 1..Len(rels)} \cup {rels[j].target : j \in 1..Len(rels)}

AppendedTriples ==
  {<<triangles[i].A, triangles[i].B, triangles[i].C>> : i \in (len0 + 1)..Len(triangles)}

HasTarget(rels, name) == \E j \in 1..Len(rels) : rels[j].target = name

HasSource(rels, name) == \E j \in 1..Len(rels) : rels[j].source = name

\* The last call ran without a cap, and no relation fetch has failed.
UncappedNoFailure ==
  /\ Returned
  /\ outcome \in {"completed", "empty"}
  /\ max_triangles_per_node = NoCap
  /\ faults = Cardinality(unlisted)

\* Every fetch the last call needed was made: its results are memoized.
AllFetched ==
  /\ LastSeed \in DOMAIN relations_cache
  /\ \A B \in Names :
       HasTarget(relations_cache[LastSeed], B) => B \in DOMAIN reverse_relations_cache

\* The triples R_out(A) and the R_in(B) define for seed A.
ExpectedTriples(A) ==
  {t \in Names \X Names \X Names :
     /\ t[1] = A
     /\ HasTarget(relations_cache[A], t[2])
     /\ HasSource(reverse_relations_cache[t[2]], t[3])
     /\ t[3] # A
     /\ HasTarget(relations_cache[A], t[3])}

\* a -> b (type 6, w 1), c -> b (type 6, w 1), a -> c (type 7, negative weight):
\* chat, animal, chien.
ChatAnimalChien == view = {2, 3, 6} /\ dead = {}

\* C13: with no cap and no fetch failure, the triples (A, B, C) of the
\* triangles a call appends for seed A are exactly those where R_out(A) has a
\* relation to B, R_in(B) a relation from C # A and R_out(A) a relation to C;
\* in the chat / animal / chien scenario that is exactly one triangle.
C13_TriplesAreTheClosedOnes ==
  UncappedNoFailure =>
    /\ AllFetched
    /\ AppendedTriples = ExpectedTriples(LastSeed)
    /\ (ChatAnimalChien /\ LastSeed = "a") =>
         /\ Len(triangles) = len0 + 1
         /\ triangles[Len(triangles)] =
              [A |-> "a", B |-> "b", C |-> "c", A_to_B |-> 6, C_to_B |-> 6, A_to_C |-> 7,
               A_to_B_weight |-> 1, C_to_B_weight |-> 1, A_to_C_weight |-> -1]

\* A call closed triangles through two different targets.
C13_Witness ==
  /\ UncappedNoFailure
  /\ \E t, u \in AppendedTriples : t[2] # u[2]

\* C14: the configured minimum weight never rejects a triangle.  For every
\* minimum weight, every relation of R_out(A) found to close a triangle gives
\* the triangle built from the three matched relations, so the triangles do
\* not depend on the minimum weight, and the rejected-relations list stays
\* empty.
C14_MinWeightRejectsNothing ==
  /\ [](rejected_relations = <<>>)
  /\ [][(pc = "rel3" /\ Rel3Matches # {}) =>
          triangles' = Append(triangles, Triangle(Rel1, Rel2, relations_from[NextRel3]))]_vars

\* A triangle with an edge below the configured minimum weight was appended.
C14_Witness ==
  /\ Len(triangles) > len0
  /\ min_weight > DefaultMinWeight
  /\ \/ triangles[Len(triangles)].A_to_B_weight < min_weight
     \/ triangles[Len(triangles)].C_to_B_weight < min_weight
     \/ triangles[Len(triangles)].A_to_C_weight < min_weight

\* C15: when a store write fails (save_triangle, mark_node_in_progress or
\* mark_node_processed raises), the failure leaves find_triangles and
\* find_all_triangles as an exception: it is never swallowed with the scan
\* going on.
C15_StoreFailureSurfaces ==
  (save_ret = "raised" \/ outcome = "store_error") => pc = "raised"

\* The targets of the seed of the last call, once its outgoing list is memoized.
LastTargets == {B \in Names : HasTarget(relations_cache[LastSeed], B)}

\* The incoming relations of B were asked for in this process and the fetch
\* failed: nothing is memoized for B.
IncomingFetchFailed(B) == net.to[B] >= 1 /\ B \notin DOMAIN reverse_relations_cache

\* C16: when the fetch of the incoming relations of one target fails (network
\* error, non-2xx answer or malformed payload), the call still examines every
\* other target of the seed: when it has returned without a cap stop, the
\* incoming relations of each target were asked for.
C16_FailedTargetDoesNotStopOthers ==
  (/\ Returned
   /\ outcome \notin {"skipped", "cap"}
   /\ LastSeed \in DOMAIN relations_cache
   /\ \E B \in LastTargets : IncomingFetchFailed(B))
  => \A B \in LastTargets : net.to[B] >= 1

HasRelation(rels, src, dst, type) ==
  \E j \in 1..Len(rels) :
    rels[j].source = src /\ rels[j].target = dst /\ rels[j].type = type

\* The node id resolves to a name: a payload lists it or node_by_id answers.
Resolvable(id) == id \notin unlisted \/ id \notin dead

\* The lists the accessors return for the upstream's view hold a relation
\* src -> dst of this type: the upstream has it, the type is not excluded and
\* both ends resolve.
Visible(src, dst, type) ==
  \E e \in view :
    /\ NodeName[EdgeU[e].node1] = src
    /\ NodeName[EdgeU[e].node2] = dst
    /\ EdgeU[e].type = type
    /\ type \notin EXCLUDED_RELATION_TYPES
    /\ Resolvable(EdgeU[e].node1)
    /\ Resolvable(EdgeU[e].node2)

\* C17: every triangle row of the store is derivable from the relations the
\* cache returned: for a row (A, B, C, tAB, tCB, tAC), R_out(A) held a relation
\* to B of type tAB, R_in(B) a relation from C of type tCB and R_out(A) a
\* relation to C of type tAC.  The store starts empty and only changes by one
\* row being appended; the row is compared with the lists memoized by the
\* process that writes it and with the upstream's view.
C17_StoredRowsAreDerivable ==
  [][db_triangles' # db_triangles =>
       LET row == db_triangles'[Len(db_triangles')]
       IN  /\ db_triangles' = Append(db_triangles, row)
           /\ row.A \in DOMAIN relations_cache
           /\ row.B \in DOMAIN reverse_relations_cache
           /\ HasRelation(relations_cache[row.A], row.A, row.B, row.A_to_B)
           /\ HasRelation(reverse_relations_cache[row.B], row.C, row.B, row.C_to_B)
           /\ HasRelation(relations_cache[row.A], row.A, row.C, row.A_to_C)
           /\ Visible(row.A, row.B, row.A_to_B)
           /\ Visible(row.C, row.B, row.C_to_B)
           /\ Visible(row.A, row.C, row.A_to_C)]_vars

\* The store holds two rows of one seed, one of them with different A->B and
\* A->C types, written by an earlier process.
C17_Witness ==
  /\ run > 1
  /\ relations_cache = EmptyMap
  /\ \E i, j \in 1..Len(db_triangles) :
       /\ i # j
       /\ db_triangles[i].A = db_triangles[j].A
       /\ db_triangles[i].A_to_B # db_triangles[i].A_to_C

\* C18: for a seed A and each pair (B, C), a call appends at most one
\* triangle, also when R_out(A) holds several relations to B, R_in(B) several
\* relations from C, or R_out(A) several relations to C.
C18_OneTrianglePerPair ==
  \A i, j \in (len0 + 1)..Len(triangles) :
    (triangles[i].B = triangles[j].B /\ triangles[i].C = triangles[j].C) => i = j

HasWeighted(rels, src, dst, type, weight) ==
  \E j \in 1..Len(rels) :
    /\ rels[j].source = src
    /\ rels[j].target = dst
    /\ rels[j].type = type
    /\ rels[j].weight = weight

\* The upstream holds the relation with this type and this w.
Upstream(src, dst, type, w) ==
  \E e \in view :
    /\ NodeName[EdgeU[e].node1] = src
    /\ NodeName[EdgeU[e].node2] = dst
    /\ EdgeU[e].type = type
    /\ EdgeU[e].w = w

\* C19: in every triangle produced, the A->B type and weight are those of one
\* relation of R_out(A) to B, the C->B ones those of one relation of R_in(B)
\* from C and the A->C ones those of one relation of R_out(A) to C, R_out(A)
\* and R_in(B) being the memoized lists; each weight is the w the upstream
\* gave, negative ones included.  Within a process the list only changes by
\* one triangle being appended.
C19_EdgesCopiedUnchanged ==
  [][(triangles' # triangles /\ run' = run) =>
       LET t == triangles'[Len(triangles')]
       IN  /\ triangles' = Append(triangles, t)
           /\ t.A \in DOMAIN relations_cache
           /\ t.B \in DOMAIN reverse_relations_cache
           /\ HasWeighted(relations_cache[t.A], t.A, t.B, t.A_to_B, t.A_to_B_weight)
           /\ HasWeighted(reverse_relations_cache[t.B], t.C, t.B, t.C_to_B, t.C_to_B_weight)
           /\ HasWeighted(relations_cache[t.A], t.A, t.C, t.A_to_C, t.A_to_C_weight)
           /\ Upstream(t.A, t.B, t.A_to_B, t.A_to_B_weight)
           /\ Upstream(t.C, t.B, t.C_to_B, t.C_to_B_weight)
           /\ Upstream(t.A, t.C, t.A_to_C, t.A_to_C_weight)]_vars

\* A triangle with a negative A->C weight was produced and stored.
C19_Witness ==
  /\ Len(triangles) > 0
  /\ triangles[Len(triangles)].A_to_C_weight < 0
  /\ Len(db_triangles) > 0
  /\ db_triangles[Len(db_triangles)].A_to_C_weight < 0

\* C20: within one run, the in-memory triangle list never holds two triangles
\* of the same 6-field identity.
C20_NoDuplicateInMemory ==
  \A i, j \in 1..Len(triangles) :
    Identity(triangles[i]) = Identity(triangles[j]) => i = j

\* C21: once a node's status in the store is completed, no later call of
\* find_triangles, in the same run or in a later run, changes it back to
\* in_progress: a completed status stays completed over every step.
C21_CompletedStaysCompleted ==
  [][\A n \in Names : StoredCompleted(n) => StoredCompleted(n)']_vars

\* A later run came to a seed completed by an earlier run, after it had
\* marked another seed in_progress itself.
C21_Witness ==
  /\ run > 1
  /\ Returned
  /\ outcome = "skipped"
  /\ StoredCompleted(LastSeed)
  /\ LastSeed \notin processed_nodes
  /\ \E n \in started : n # LastSeed

\* C22: get_relations_from and get_relations_to return an empty list and
\* raise nothing whenever the upstream answer is not a usable payload
\* (non-2xx, timeout, malformed): for the fetch the call is about to make,
\* every answer other than a usable one gives no relation, no exception and
\* no memo entry.
C22_BadAnswerIsEmptyList ==
  /\ pc = "from" =>
        \A answer \in AnswersFor(relations_cache, node_name) \ {"ok"} :
          LET r == get_relations_from(node_name, answer)
          IN  ~r.raised /\ IsEmpty(r.relations) /\ r.cache = relations_cache
  /\ (pc = "targets" /\ ~CapReached) =>
        \A b \in target_nodes :
          \A answer \in AnswersFor(reverse_relations_cache, b) \ {"ok"} :
            LET r == get_relations_to(b, answer)
            IN  ~r.raised /\ IsEmpty(r.relations) /\ r.cache = reverse_relations_cache

\* The relations of the payload of word that are not excluded and whose two
\* endpoints resolve, in payload order, with the endpoints' names.
KeptRelations(word, dir) ==
  LET raw == PayloadRelations(word, dir)
      kept == SelectSeq(raw, LAMBDA rel : /\ rel.type \notin EXCLUDED_RELATION_TYPES
                                          /\ Resolvable(rel.node1)
                                          /\ Resolvable(rel.node2))
  IN  [j \in 1..Len(kept) |->
         [source |-> NodeName[kept[j].node1], target |-> NodeName[kept[j].node2],
          type |-> kept[j].type, weight |-> kept[j].w]]

\* The step fetched the relations of word in this direction and the upstream
\* gave a well-formed payload.
FetchedOk(word, dir) == net'[dir][word] > net[dir][word] /\ faults' = faults

\* C23: when a relation of a batch names an endpoint that is neither in the
\* payload's node list nor resolvable by get_node_info, only that relation is
\* dropped: every fetch answered with a well-formed payload memoizes, under
\* the word, exactly the non-excluded relations whose endpoints resolve.
C23_OnlyUnresolvedDropped ==
  [][\A word \in Names :
       /\ FetchedOk(word, "from") =>
            /\ word \in DOMAIN relations_cache'
            /\ relations_cache'[word] = KeptRelations(word, "from")
       /\ FetchedOk(word, "to") =>
            /\ word \in DOMAIN reverse_relations_cache'
            /\ reverse_relations_cache'[word] = KeptRelations(word, "to")]_vars

\* A memoized batch that lost a relation to an unresolvable endpoint and kept
\* another one.
C23_Witness ==
  \E word \in DOMAIN relations_cache :
    /\ ~IsEmpty(relations_cache[word])
    /\ Len(relations_cache[word]) < Len(filter_relations(PayloadRelations(word, "from")))

\* The number of triangles of the result list whose A->B relation has type t.
CountABType(t) == Cardinality({i \in 1..Len(triangles) : triangles[i].A_to_B = t})

RECURSIVE SumOfStats(_, _)
SumOfStats(stats, keys) ==
  IF keys = {} THEN 0
  ELSE LET k == CHOOSE x \in keys : TRUE
       IN  stats[k] + SumOfStats(stats, keys \ {k})

\* C24: after any sequence of find_triangles calls, relation_types[t] of the
\* statistics is the number of triangles of the result list whose A->B type
\* is t, and the entries sum to total_triangles.
C24_HistogramMatchesList ==
  pc \in {"loop", "done"} =>
    /\ \A t \in DOMAIN relation_stats : relation_stats[t] = CountABType(t)
    /\ \A i \in 1..Len(triangles) : triangles[i].A_to_B \in DOMAIN relation_stats
    /\ SumOfStats(relation_stats, DOMAIN relation_stats) = Len(triangles)

\* The accessors return some relation src -> dst for the upstream's view.
VisibleAny(src, dst) == \E e \in view : Visible(src, dst, EdgeU[e].type)

\* The triples (A, B, C) the upstream's view closes for seed A.
ClosedTriples(A) ==
  {t \in Names \X Names \X Names :
     /\ t[1] = A
     /\ VisibleAny(A, t[2])
     /\ VisibleAny(t[3], t[2])
     /\ t[3] # A
     /\ VisibleAny(A, t[3])}

\* C25: for a seed A the set of triangles find_triangles produces does not
\* depend on the order in which the targets and the sources are iterated,
\* with or without a cap.  Each closed triple is the first one found under
\* some order, so a set that is the same under every order holds them all:
\* a call that met no failure produced every triple (A, B, C) the view closes.
C25_SameSetInEveryOrder ==
  (Returned /\ outcome \in {"completed", "cap"} /\ faults = Cardinality(unlisted)) =>
    AppendedTriples = ClosedTriples(LastSeed)

\* A call of find_triangles is past its skip tests and has not returned.
InCall == pc \in {"from", "targets", "sources", "rel3"}

\* C26: find_all_triangles calls find_triangles on every seed of the list
\* exactly once and in list order, also when the call on an earlier seed met a
\* fetch failure or an exception of the relation source: the position in the
\* list moves by one per call, the call in progress is the one on the seed at
\* that position, and when find_all_triangles returns the position is past
\* the end of the list and every named seed was visited.
C26_EverySeedOnceInOrder ==
  /\ [](pc = "done" =>
          /\ idx = Len(nodes) + 1
          /\ \A j \in 1..Len(nodes) : nodes[j] # NoName => nodes[j] \in processed_nodes)
  /\ [](InCall => idx <= Len(nodes) /\ node_name = nodes[idx])
  /\ [][idx' # idx => idx' = idx + 1 /\ pc' = "loop"]_vars

\* find_all_triangles returned; the fetch of the relations of seed a failed,
\* and the later seed b was processed all the same.
C26_Witness ==
  /\ pc = "done"
  /\ faults > Cardinality(unlisted)
  /\ "a" \notin DOMAIN relations_cache
  /\ "b" \in DOMAIN relations_cache

\* The first seed was left in_progress by the run that was interrupted, and
\* this run processed it again, without any fetch failure.
Reprocessed ==
  /\ run > 1
  /\ ~clean_start
  /\ Returned
  /\ idx = 2
  /\ outcome # "skipped"
  /\ faults = Cardinality(unlisted)

\* The identities of the stored rows whose node A is the seed.
StoredFor(seed) ==
  {Identity(db_triangles[i]) : i \in {j \in 1..Len(db_triangles) : db_triangles[j].A = seed}}

\* The identities of the triangles the last call produced.
AppendedIdentities == {Identity(triangles[i]) : i \in (len0 + 1)..Len(triangles)}

\* C27: re-processing from scratch a node that an interrupted run left
\* in_progress, against the same view and configuration, leaves the store
\* with the rows one uninterrupted processing of the node gives, the rows of
\* the triangles this processing produced, and with the node marked completed.
C27_ReprocessingIsIdempotent ==
  Reprocessed =>
    /\ StoredCompleted(LastSeed)
    /\ StoredFor(LastSeed) = AppendedIdentities

\* The number of stored rows whose node A is the seed.
RowsFor(seed) == Cardinality({i \in 1..Len(db_triangles) : db_triangles[i].A = seed})

\* C28: with a per-node cap k used on every run, the store never holds more
\* than k rows whose node A is a given seed, over any number of runs and
\* restarts on the same store.
C28_CapBoundsStoredRows ==
  max_triangles_per_node # NoCap =>
    \A seed \in Names : RowsFor(seed) <= max_triangles_per_node

\* C29: with a store attached and no store write failing, after every
\* find_triangles call the identity of every triangle of the in-memory list
\* is the identity of a stored row.
C29_MemoryIsInStore ==
  has_db => \A i \in 1..Len(triangles) : Identity(triangles[i]) \in StoredIdentities(db_triangles)

\* A later run found again a triangle an earlier run had stored: the insert
\* was ignored and the triangle is in the list and in the store.
C29_Witness ==
  /\ has_db
  /\ run > 1
  /\ save_ret = "false"
  /\ Len(triangles) > 0
  /\ Len(db_triangles) > Len(triangles)

\* s is an initial part of t.
IsPrefix(s, t) == Len(s) <= Len(t) /\ \A i \in 1..Len(s) : t[i] = s[i]

\* C30: the in-memory result list is append-only: every find_triangles call,
\* whatever its outcome (skip, empty result, cap, exception, completion),
\* leaves the triangles that were in the list before it as a prefix of the
\* list; no step of a process removes, replaces or reorders a triangle.
C30_ListIsAppendOnly ==
  /\ [][IsPrefix(triangles, triangles')]_vars
  /\ [](Returned => len0 <= Len(triangles))

\* A call on a later seed ended on an exception after it had appended a
\* triangle, and the triangles of the earlier seeds are still in the list.
C30_Witness ==
  /\ Returned
  /\ outcome = "error"
  /\ len0 > 0
  /\ Len(triangles) > len0

====
